---- MODULE Spec2Model ----
(***************************************************************************)
(* A model of the sampled Kibana sources:                                  *)
(*   - the ML job-validation HTTP routes                                   *)
(*     (x-pack/plugins/ml/server/routes/job_validation.ts),                *)
(*   - the EQL query of the detection rule "Disable Windows Firewall       *)
(*     Rules via Netsh",                                                   *)
(*   - the plugin lifecycle described by the Core API documentation.       *)
(***************************************************************************)
EXTENDS Integers, Sequences, FiniteSets, TLC

(***************************************************************************)
(* Bounds                                                                  *)
(***************************************************************************)
MaxRequests == 2

MaxPlugins == 2

Requests == 1..MaxRequests

(***************************************************************************)
(* JavaScript values.  Every value is a record, so that any two values can *)
(* be compared.                                                            *)
(***************************************************************************)
Undefined == [atom |-> "undefined", of |-> 0]

Bool(b) == [atom |-> IF b THEN "true" ELSE "false", of |-> 0]

\* a value that belongs to request r (a field of its body, a header, ...)
Field(name, r) == [atom |-> name, of |-> r]

(***************************************************************************)
(* The request: body (already validated against the route's schema) and    *)
(* the authorization header.                                               *)
(***************************************************************************)
RequestBody(r) ==
    [ datafeedConfig |-> Field("datafeedConfig", r),
      analysisConfig |-> Field("analysisConfig", r),
      indexPattern   |-> Field("indexPattern", r),
      query          |-> Field("query", r),
      timeFieldName  |-> Field("timeFieldName", r),
      earliestMs     |-> Field("earliestMs", r),
      latestMs       |-> Field("latestMs", r),
      job            |-> Field("job", r) ]

getAuthorizationHeader(r) == Field("authorization", r)

Client(r) == Field("client", r)

MlClient(r) == Field("mlClient", r)

(***************************************************************************)
(* Route registration: jobValidationRoutes calls router.post five times.   *)
(***************************************************************************)
EstimateBucketSpan == "/api/ml/validate/estimate_bucket_span"

CalculateModelMemoryLimit == "/api/ml/validate/calculate_model_memory_limit"

ValidateCardinality == "/api/ml/validate/cardinality"

ValidateJob == "/api/ml/validate/job"

ValidateDatafeedPreview == "/api/ml/validate/datafeed_preview"

Paths == {EstimateBucketSpan, CalculateModelMemoryLimit, ValidateCardinality, ValidateJob, ValidateDatafeedPreview}

CanCreateJob == "access:ml:canCreateJob"

\* mutant: the cardinality route is registered without its access tag
RouteTagsUntagged(path) == IF path = ValidateCardinality THEN {} ELSE {CanCreateJob}

\* options.tags of each router.post call
RouteTags(path) == {CanCreateJob}

\* whether the handler given to router.post is routeGuard.fullLicenseAPIGuard(...)
RouteGuarded(path) == TRUE

jobValidationRoutes ==
    [path \in Paths |-> [tags |-> RouteTags(path), guarded |-> RouteGuarded(path)]]

NoRoutes == [path \in {} |-> [tags |-> {}, guarded |-> FALSE]]

(***************************************************************************)
(* The calls to the model functions.                                       *)
(***************************************************************************)
\* mutant: earliestMs and latestMs are passed in the wrong order
calculateModelMemoryLimitSwapped(client, mlClient, payload) ==
    [ fn   |-> "calculateModelMemoryLimitProvider",
      make |-> <<client, mlClient>>,
      args |-> << payload.analysisConfig, payload.indexPattern, payload.query,
                  payload.timeFieldName, payload.latestMs, payload.earliestMs,
                  Undefined, payload.datafeedConfig >> ]

calculateModelMemoryLimit(client, mlClient, payload) ==
    [ fn   |-> "calculateModelMemoryLimitProvider",
      make |-> <<client, mlClient>>,
      args |-> << payload.analysisConfig, payload.indexPattern, payload.query,
                  payload.timeFieldName, payload.earliestMs, payload.latestMs,
                  Undefined, payload.datafeedConfig >> ]

\* mutant: !mlLicense.isSecurityEnabled() instead of === false
SecurityDisabledFalsy(flag) == flag # "true"

\* mlLicense.isSecurityEnabled() === false
SecurityDisabled(flag) == flag = "false"

\* the model-function call each handler makes for request r; flag is what
\* mlLicense.isSecurityEnabled() returns at that moment
ModelCall(path, r, flag) ==
    CASE path = EstimateBucketSpan ->
           [ fn   |-> "estimateBucketSpanFactory",
             make |-> <<Client(r)>>,
             args |-> <<Field("body", r)>> ]
      [] path = CalculateModelMemoryLimit ->
           calculateModelMemoryLimit(Client(r), MlClient(r), RequestBody(r))
      [] path = ValidateCardinality ->
           [ fn   |-> "validateCardinality",
             make |-> <<>>,
             args |-> <<Client(r), Field("body", r)>> ]
      [] path = ValidateJob ->
           [ fn   |-> "validateJob",
             make |-> <<>>,
             args |-> << Client(r), MlClient(r), Field("body", r),
                         getAuthorizationHeader(r),
                         Bool(SecurityDisabled(flag)) >> ]
      [] path = ValidateDatafeedPreview ->
           [ fn   |-> "validateDatafeedPreview",
             make |-> <<>>,
             args |-> <<MlClient(r), getAuthorizationHeader(r), RequestBody(r).job>> ]

(***************************************************************************)
(* Responses.                                                              *)
(***************************************************************************)
wrapError(e) == [wrapError |-> e]

ResponseOk(body) == [type |-> "ok", payload |-> body]

ResponseCustomError(err) == [type |-> "customError", payload |-> err]

BoomBadRequest(e) == [type |-> "Boom.badRequest", payload |-> e]

Forbidden == [type |-> "forbidden", payload |-> Undefined]

\* the object the estimate_bucket_span handler's .catch callback builds
ErrorResp(error) == [error |-> TRUE, message |-> error]

\* mutant: the handler forgets the sentinel and always answers resp
EstimateBodyRespOnly(errorResp, resp) == resp

\* errorResp !== undefined ? errorResp : resp
EstimateBody(errorResp, resp) == IF errorResp # Undefined THEN errorResp ELSE resp

\* mutant: the four generic handlers rethrow instead of answering customError
CatchRethrow(path, e) ==
    IF path = EstimateBucketSpan THEN <<BoomBadRequest(e)>>
    ELSE <<[type |-> "thrown", payload |-> e]>>

\* mutant: an empty catch block, the handler ends without a response
CatchSwallow(path, e) ==
    IF path = EstimateBucketSpan THEN <<BoomBadRequest(e)>> ELSE <<>>

\* the catch (e) block of each handler: what the handler ends with
Catch(path, e) ==
    IF path = EstimateBucketSpan THEN <<BoomBadRequest(e)>>
    ELSE <<ResponseCustomError(wrapError(e))>>

(***************************************************************************)
(* How a model function can behave for request r.  The model functions     *)
(* call the analytics cluster; every behaviour of a JavaScript function    *)
(* returning a promise is possible.                                        *)
(***************************************************************************)
ErrorOf(r) == Field("Error", r)

\* "resolved": the promise resolves; "rejected": the code rejects it with a
\* message; "asyncThrew": an error is thrown inside the asynchronous code
Settlements(r) ==
    { [kind |-> "resolved", value |-> v] : v \in {Undefined, Field("result", r)} }
    \cup { [kind |-> "rejected", value |-> Field("message", r)] }
    \cup { [kind |-> "asyncThrew", value |-> ErrorOf(r)] }

SyncThrew(r) == [kind |-> "syncThrew", value |-> ErrorOf(r)]

Pending == [kind |-> "pending", value |-> Undefined]

\* an error thrown inside an async function or a promise callback rejects
\* the promise: the awaiting handler sees a rejection either way
Rejected(s) == s.kind \in {"rejected", "asyncThrew"}

(***************************************************************************)
(* EQL, as far as the rule's query uses it.                                *)
(***************************************************************************)
\* the words that can occur in process.args
ArgWords == {"disable", "firewall", "set", "advfirewall", "off", "state"}

Events ==
    [ category : {"process", "network"},
      type     : {"start", "process_started", "end"},
      name     : {"netsh.exe", "NETSH.EXE", "cmd.exe"},
      args     : SUBSET ArgWords ]

NoEvent == [category |-> "", type |-> "", name |-> "", args |-> {}]

Lower(s) == IF s = "NETSH.EXE" THEN "netsh.exe" ELSE s

\* field : "literal" -- a case-insensitive match; on a multi-valued field
\* such as process.args, a match of any of its values
Like(values, literal) == \E v \in values : Lower(v) = Lower(literal)

\* event.type in ("start", "process_started")
TypeIsStart(e) == e.type \in {"start", "process_started"}

\* process.name : "netsh.exe"
NameIsNetsh(e) == Like({e.name}, "netsh.exe")

\* (process.args : "disable" and process.args : "firewall" and process.args : "set")
DisableFirewallSet(e) ==
    Like(e.args, "disable") /\ Like(e.args, "firewall") /\ Like(e.args, "set")

\* (process.args : "advfirewall" and process.args : "off" and process.args : "state")
AdvfirewallOffState(e) ==
    Like(e.args, "advfirewall") /\ Like(e.args, "off") /\ Like(e.args, "state")

\* The query as EQL parses it.  `and` binds tighter than `or`, so the text
\*   A and B and (C) or (D)
\* is the condition ((A and B and C) or D) on an event of category process.
QueryMatches(e) ==
    /\ e.category = "process"
    /\ \/ (TypeIsStart(e) /\ NameIsNetsh(e) /\ DisableFirewallSet(e))
       \/ AdvfirewallOffState(e)

(***************************************************************************)
(* The plugin lifecycle of the Core API documentation.                     *)
(***************************************************************************)
Plugins == 1..MaxPlugins

(***************************************************************************)
(* State                                                                   *)
(***************************************************************************)
VARIABLES
    router,           \* the routes registered so far: path -> config
    securityEnabled,  \* what mlLicense.isSecurityEnabled() returns now
    req,              \* per request: position, inputs, calls made, responses
    errorResp         \* the errorResp variable of each handler invocation

httpVars == <<router, securityEnabled, req, errorResp>>

VARIABLES
    event,            \* the event the detection rule is run on
    matched           \* the rule's verdict on it: "none" before it has run

eqlVars == <<event, matched>>

VARIABLES
    platform,         \* the platform's sequence: "startup", "running", "shutdown"
    plugin,           \* per plugin: how far its lifecycle has come
    apiCalls          \* the Core API invocations made so far

lifeVars == <<platform, plugin, apiCalls>>

vars == <<httpVars, eqlVars, lifeVars>>

\* mutant: errorResp declared outside the handler, shared by all invocations
ErrorRespShared(r) == 1

\* which errorResp variable the invocation for request r uses: `let errorResp`
\* is declared inside the handler, one per invocation
ErrorRespOf(r) == r

Idle ==
    [ pc |-> "idle", path |-> "", canCreateJob |-> FALSE, licensed |-> FALSE,
      calls |-> <<>>, settlement |-> Pending, outcomes |-> <<>> ]

HttpInit ==
    /\ router = NoRoutes
    /\ securityEnabled \in {"true", "false", "undefined"}
    /\ req = [r \in Requests |-> Idle]
    /\ errorResp = [r \in Requests |-> Undefined]

(***************************************************************************)
(* Actions                                                                 *)
(***************************************************************************)
\* plugin setup: jobValidationRoutes({router, mlLicense, routeGuard})
RegisterRoutes ==
    /\ router = NoRoutes
    /\ router' = jobValidationRoutes
    /\ UNCHANGED <<securityEnabled, req, errorResp>>
    /\ UNCHANGED <<eqlVars, lifeVars>>

\* the security feature is switched on or off, or is not known
SecurityChanges ==
    /\ \E v \in {"true", "false", "undefined"} :
          /\ v # securityEnabled
          /\ securityEnabled' = v
    /\ UNCHANGED <<router, req, errorResp>>
    /\ UNCHANGED <<eqlVars, lifeVars>>

\* the platform's check of the route's access tags against the user's privileges
TagCheck(cfg, canCreateJob) ==
    cfg.tags \subseteq (IF canCreateJob THEN {CanCreateJob} ELSE {})

\* routeGuard.fullLicenseAPIGuard: the handler runs only if the license, as the
\* guard finds it when the request arrives, is a full license
fullLicenseAPIGuard(cfg, fullLicense) == cfg.guarded => fullLicense

\* A request arrives and fails the tag check or the license guard: no handler
\* runs for it.
Reject(r) ==
    /\ req[r].pc = "idle"
    /\ router # NoRoutes
    /\ \E path \in DOMAIN router, canCreateJob \in BOOLEAN, fullLicense \in BOOLEAN :
          /\ ~(TagCheck(router[path], canCreateJob) /\ fullLicenseAPIGuard(router[path], fullLicense))
          /\ req' = [req EXCEPT ![r] =
                        [@ EXCEPT !.pc = "done",
                                  !.canCreateJob = canCreateJob,
                                  !.licensed = fullLicense,
                                  !.outcomes = <<Forbidden>>]]
    /\ UNCHANGED <<router, securityEnabled, errorResp>>
    /\ UNCHANGED <<eqlVars, lifeVars>>

\* A request passes the checks and its handler runs up to the await: it
\* declares errorResp (estimate_bucket_span) and calls the model function,
\* which returns a promise.
HandlerAwaits(r) ==
    /\ req[r].pc = "idle"
    /\ router # NoRoutes
    /\ \E path \in DOMAIN router, canCreateJob \in BOOLEAN, fullLicense \in BOOLEAN :
          /\ TagCheck(router[path], canCreateJob)
          /\ fullLicenseAPIGuard(router[path], fullLicense)
          /\ req' = [req EXCEPT ![r] =
                        [@ EXCEPT !.pc = "awaiting", !.path = path,
                                  !.canCreateJob = canCreateJob,
                                  !.licensed = fullLicense,
                                  !.calls = Append(@, ModelCall(path, r, securityEnabled))]]
          /\ errorResp' = IF path = EstimateBucketSpan
                          THEN [errorResp EXCEPT ![ErrorRespOf(r)] = Undefined]
                          ELSE errorResp
    /\ UNCHANGED <<router, securityEnabled>>
    /\ UNCHANGED <<eqlVars, lifeVars>>

\* A request passes the checks and the model function throws before it
\* returns a promise: the handler's catch block runs.
HandlerCatchesSync(r) ==
    /\ req[r].pc = "idle"
    /\ router # NoRoutes
    /\ \E path \in DOMAIN router, canCreateJob \in BOOLEAN, fullLicense \in BOOLEAN :
          /\ TagCheck(router[path], canCreateJob)
          /\ fullLicenseAPIGuard(router[path], fullLicense)
          /\ req' = [req EXCEPT ![r] =
                        [@ EXCEPT !.pc = "done", !.path = path,
                                  !.canCreateJob = canCreateJob,
                                  !.licensed = fullLicense,
                                  !.calls = Append(@, ModelCall(path, r, securityEnabled)),
                                  !.settlement = SyncThrew(r),
                                  !.outcomes = @ \o Catch(path, ErrorOf(r))]]
          /\ errorResp' = IF path = EstimateBucketSpan
                          THEN [errorResp EXCEPT ![ErrorRespOf(r)] = Undefined]
                          ELSE errorResp
    /\ UNCHANGED <<router, securityEnabled>>
    /\ UNCHANGED <<eqlVars, lifeVars>>

\* The promise of the model function settles.
Settle(r) ==
    /\ req[r].pc = "awaiting"
    /\ \E s \in Settlements(r) :
          req' = [req EXCEPT ![r] = [@ EXCEPT !.pc = "settled", !.settlement = s]]
    /\ UNCHANGED <<router, securityEnabled, errorResp>>
    /\ UNCHANGED <<eqlVars, lifeVars>>

\* estimate_bucket_span after the await: the .catch callback has turned a
\* rejection into errorResp (and resp into undefined); response.ok follows.
ResumeEstimate(r) ==
    /\ req[r].pc = "settled"
    /\ req[r].path = EstimateBucketSpan
    /\ LET s    == req[r].settlement
           slot == ErrorRespOf(r)
           after == IF Rejected(s)
                    THEN [errorResp EXCEPT ![slot] = ErrorResp(s.value)]
                    ELSE errorResp
           resp == IF Rejected(s) THEN Undefined ELSE s.value
       IN  /\ errorResp' = after
           /\ req' = [req EXCEPT ![r] =
                         [@ EXCEPT !.pc = "done",
                                   !.outcomes = Append(@, ResponseOk(EstimateBody(after[slot], resp)))]]
    /\ UNCHANGED <<router, securityEnabled>>
    /\ UNCHANGED <<eqlVars, lifeVars>>

\* the four other handlers after the await: response.ok with the resolved
\* value, or the catch block
ResumeGeneric(r) ==
    /\ req[r].pc = "settled"
    /\ req[r].path # EstimateBucketSpan
    /\ LET s == req[r].settlement
       IN  req' = [req EXCEPT ![r] =
                      [@ EXCEPT !.pc = "done",
                                !.outcomes = IF Rejected(s)
                                             THEN @ \o Catch(req[r].path, s.value)
                                             ELSE Append(@, ResponseOk(s.value))]]
    /\ UNCHANGED <<router, securityEnabled, errorResp>>
    /\ UNCHANGED <<eqlVars, lifeVars>>

HttpNext ==
    \/ RegisterRoutes
    \/ SecurityChanges
    \/ \E r \in Requests : Reject(r)
    \/ \E r \in Requests : HandlerAwaits(r)
    \/ \E r \in Requests : HandlerCatchesSync(r)
    \/ \E r \in Requests : Settle(r)
    \/ \E r \in Requests : ResumeEstimate(r)
    \/ \E r \in Requests : ResumeGeneric(r)

Init ==
    /\ HttpInit
    /\ event = NoEvent
    /\ matched = "none"
    /\ platform = "startup"
    /\ plugin = [p \in Plugins |-> "constructed"]
    /\ apiCalls = {}

Next == HttpNext

Spec == Init /\ [][Next]_vars

(***************************************************************************)
(* The detection rule "Disable Windows Firewall Rules via Netsh": its EQL  *)
(* query, run on one event.                                                *)
(***************************************************************************)
RunRule ==
    /\ matched = "none"
    /\ event # NoEvent
    /\ matched' = IF QueryMatches(event) THEN "match" ELSE "nomatch"
    /\ UNCHANGED <<event, httpVars, lifeVars>>

EqlInit ==
    /\ event \in Events
    /\ matched = "none"
    /\ router = NoRoutes
    /\ securityEnabled = "true"
    /\ req = [r \in Requests |-> Idle]
    /\ errorResp = [r \in Requests |-> Undefined]
    /\ platform = "startup"
    /\ plugin = [p \in Plugins |-> "constructed"]
    /\ apiCalls = {}

EqlNext == RunRule

EqlSpec == EqlInit /\ [][EqlNext]_vars

(***************************************************************************)
(* The plugin lifecycle: the platform calls setup(core), start(core) and   *)
(* stop() on every plugin; a plugin invokes the Core API it was handed.    *)
(* A plugin is "constructed", then "settingUp" while its setup method      *)
(* runs, "setUp", "starting" while its start method runs, "started",       *)
(* "stopping" while its stop method runs, and "stopped".                   *)
(***************************************************************************)
\* mutant: a plugin is started as soon as its own setup has completed
CanStartEager(p) == plugin[p] = "setUp"

\* start is "called after all plugins are set up"
CanStart(p) ==
    /\ plugin[p] = "setUp"
    /\ \A q \in Plugins : plugin[q] \in {"setUp", "starting", "started"}

\* the Core API a plugin holds while one of its lifecycle methods runs
InjectedApi(p) ==
    CASE plugin[p] = "settingUp" -> {"CoreSetup"}
      [] plugin[p] = "starting"  -> {"CoreStart"}
      [] OTHER                   -> {}

\* setup(core) is called "during Kibana's startup sequence"
SetupBegins(p) ==
    /\ platform = "startup"
    /\ plugin[p] = "constructed"
    /\ plugin' = [plugin EXCEPT ![p] = "settingUp"]
    /\ UNCHANGED <<platform, apiCalls, httpVars, eqlVars>>

SetupCompletes(p) ==
    /\ plugin[p] = "settingUp"
    /\ plugin' = [plugin EXCEPT ![p] = "setUp"]
    /\ UNCHANGED <<platform, apiCalls, httpVars, eqlVars>>

StartBegins(p) ==
    /\ platform = "startup"
    /\ CanStart(p)
    /\ plugin' = [plugin EXCEPT ![p] = "starting"]
    /\ UNCHANGED <<platform, apiCalls, httpVars, eqlVars>>

StartCompletes(p) ==
    /\ plugin[p] = "starting"
    /\ plugin' = [plugin EXCEPT ![p] = "started"]
    /\ UNCHANGED <<platform, apiCalls, httpVars, eqlVars>>

\* the startup sequence is over once every plugin has started
StartupCompletes ==
    /\ platform = "startup"
    /\ \A p \in Plugins : plugin[p] = "started"
    /\ platform' = "running"
    /\ UNCHANGED <<plugin, apiCalls, httpVars, eqlVars>>

\* the shutdown sequence begins
ShutdownBegins ==
    /\ platform \in {"startup", "running"}
    /\ platform' = "shutdown"
    /\ UNCHANGED <<plugin, apiCalls, httpVars, eqlVars>>

\* stop() is called "when plugin is torn down during Kibana's shutdown sequence"
StopBegins(p) ==
    /\ platform = "shutdown"
    /\ plugin[p] \in {"setUp", "started"}
    /\ plugin' = [plugin EXCEPT ![p] = "stopping"]
    /\ UNCHANGED <<platform, apiCalls, httpVars, eqlVars>>

StopCompletes(p) ==
    /\ plugin[p] = "stopping"
    /\ plugin' = [plugin EXCEPT ![p] = "stopped"]
    /\ UNCHANGED <<platform, apiCalls, httpVars, eqlVars>>

\* a plugin invokes a Core API: one "injected into your plugin's lifecycle
\* methods", which "may be invoked during that lifecycle only"
InvokeCoreApi(p) ==
    /\ \E api \in InjectedApi(p) :
          apiCalls' = apiCalls \cup {[plugin |-> p, api |-> api, during |-> plugin[p]]}
    /\ apiCalls' # apiCalls
    /\ UNCHANGED <<platform, plugin, httpVars, eqlVars>>

LifecycleInit ==
    /\ platform = "startup"
    /\ plugin = [p \in Plugins |-> "constructed"]
    /\ apiCalls = {}
    /\ event = NoEvent
    /\ matched = "none"
    /\ router = NoRoutes
    /\ securityEnabled = "true"
    /\ req = [r \in Requests |-> Idle]
    /\ errorResp = [r \in Requests |-> Undefined]

LifecycleNext ==
    \/ \E p \in Plugins : SetupBegins(p)
    \/ \E p \in Plugins : SetupCompletes(p)
    \/ \E p \in Plugins : StartBegins(p)
    \/ \E p \in Plugins : StartCompletes(p)
    \/ StartupCompletes
    \/ ShutdownBegins
    \/ \E p \in Plugins : StopBegins(p)
    \/ \E p \in Plugins : StopCompletes(p)
    \/ \E p \in Plugins : InvokeCoreApi(p)

LifecycleSpec == LifecycleInit /\ [][LifecycleNext]_vars

(***************************************************************************)
(* Properties of the job-validation routes (specification Spec).           *)
(***************************************************************************)
\* the handler of request r has run (its model function has been called)
Handled(r) == req[r].calls # <<>>

Finished(r) == Handled(r) /\ req[r].pc = "done"

\* the promise of r's model function rejected
PromiseRejected(r) == req[r].settlement.kind \in {"rejected", "asyncThrew"}

\* the model function of r raised an error, before or after returning its promise
ModelFailed(r) == req[r].settlement.kind \in {"syncThrew", "rejected", "asyncThrew"}

\* C1: estimate_bucket_span, soft failure.  When the estimator's promise
\* rejects with m, the handler's only outcome is response.ok with the body
\* {error: true, message: m}; when it resolves with r (undefined included),
\* the only outcome is response.ok with the body r.
C1_SoftFailureIs200 ==
    \A r \in Requests :
        (Finished(r) /\ req[r].path = EstimateBucketSpan /\ req[r].settlement.kind # "syncThrew")
        => LET s == req[r].settlement
           IN  req[r].outcomes =
                 << [ type    |-> "ok",
                      payload |-> IF s.kind = "resolved" THEN s.value
                                  ELSE [error |-> TRUE, message |-> s.value] ] >>

\* both cases of C1 have happened: a rejection answered with the sentinel and
\* a resolution with undefined answered with undefined
C1_Witness ==
    \E r, q \in Requests :
        /\ Finished(r) /\ req[r].path = EstimateBucketSpan
        /\ req[r].settlement = [kind |-> "rejected", value |-> Field("message", r)]
        /\ req[r].outcomes[1].payload = [error |-> TRUE, message |-> Field("message", r)]
        /\ Finished(q) /\ req[q].path = EstimateBucketSpan
        /\ req[q].settlement = [kind |-> "resolved", value |-> Undefined]
        /\ req[q].outcomes = <<ResponseOk(Undefined)>>

\* C2: estimate_bucket_span, hard failure.  Whenever an error is thrown while
\* the estimation code runs, before the estimator has returned its promise or
\* afterwards inside the asynchronous estimation, the handler's outcome is
\* Boom.badRequest and no 200 response is produced.
C2_ThrownErrorIs400 ==
    \A r \in Requests :
        (Finished(r) /\ req[r].path = EstimateBucketSpan
            /\ req[r].settlement.kind \in {"syncThrew", "asyncThrew"})
        => /\ req[r].outcomes = <<BoomBadRequest(req[r].settlement.value)>>
           /\ \A i \in DOMAIN req[r].outcomes : req[r].outcomes[i].type # "ok"

\* C3 as stated: on each of the five routes an error raised by the model
\* function is answered with response.customError(wrapError(e)), and leaves
\* the handler by no other path.
C3_EveryRouteWrapsErrors ==
    \A r \in Requests :
        (Finished(r) /\ ModelFailed(r))
        => req[r].outcomes = <<ResponseCustomError(wrapError(req[r].settlement.value))>>

\* C3 amended: on the four routes calculate_model_memory_limit, cardinality,
\* job and datafeed_preview an error raised by the model function (thrown or
\* a rejection) is answered with response.customError(wrapError(e)) and
\* nothing else; on estimate_bucket_span a rejection is answered with
\* response.ok({error: true, message: e}) and a synchronous throw leaves the
\* handler as a thrown Boom.badRequest(e).
C3_FourRoutesWrapErrors ==
    \A r \in Requests :
        (Finished(r) /\ ModelFailed(r))
        => LET e == req[r].settlement.value
           IN  req[r].outcomes =
                 IF req[r].path # EstimateBucketSpan
                 THEN <<[type |-> "customError", payload |-> [wrapError |-> e]]>>
                 ELSE IF req[r].settlement.kind = "syncThrew"
                 THEN <<[type |-> "Boom.badRequest", payload |-> e]>>
                 ELSE <<[type |-> "ok", payload |-> [error |-> TRUE, message |-> e]]>>

\* a generic route has answered a rejection with customError while an
\* estimate_bucket_span request has ended in Boom.badRequest
C3_Witness ==
    \E r, q \in Requests :
        /\ Finished(r) /\ req[r].path = ValidateCardinality /\ PromiseRejected(r)
        /\ req[r].outcomes[1].type = "customError"
        /\ Finished(q) /\ req[q].path = EstimateBucketSpan
        /\ req[q].outcomes[1].type = "Boom.badRequest"

\* C5: /api/ml/validate/job.  The handler calls validateJob once, with the
\* body and the authorization header of the request it handles and, as
\* fifth argument, true exactly when mlLicense.isSecurityEnabled() returns
\* false at the moment of the call.
C5_SecurityFlagReadAtRequest ==
    [][ \A r \in Requests :
          (~Handled(r) /\ req'[r].calls # <<>> /\ req'[r].path = ValidateJob)
          => /\ Len(req'[r].calls) = 1
             /\ req'[r].calls[1].fn = "validateJob"
             /\ Len(req'[r].calls[1].args) = 5
             /\ req'[r].calls[1].args[3] = [atom |-> "body", of |-> r]
             /\ req'[r].calls[1].args[4] = [atom |-> "authorization", of |-> r]
             /\ req'[r].calls[1].args[5] =
                  [atom |-> IF securityEnabled = "false" THEN "true" ELSE "false", of |-> 0]
      ]_vars

\* two job requests served by the same registration were called with different
\* flags, one of them while isSecurityEnabled() returned a non-boolean
C5_Witness ==
    \E r, q \in Requests :
        /\ Handled(r) /\ req[r].path = ValidateJob
        /\ Handled(q) /\ req[q].path = ValidateJob
        /\ req[r].calls[1].args[5] = Bool(TRUE)
        /\ req[q].calls[1].args[5] = Bool(FALSE)
        /\ req[q].pc = "awaiting"
        /\ securityEnabled = "undefined"

\* C6: every registered route carries the tag access:ml:canCreateJob and a
\* handler wrapped in fullLicenseAPIGuard, and no model function is called
\* for a request whose user lacks the privilege of the tag or that arrived
\* without a full license.
C6_GuardedRoutes ==
    /\ \A path \in DOMAIN router :
          "access:ml:canCreateJob" \in router[path].tags /\ router[path].guarded
    /\ router # NoRoutes => DOMAIN router = Paths
    /\ \A r \in Requests :
          Handled(r) => (req[r].canCreateJob /\ req[r].licensed)

\* one request was served and another was turned away for lack of the privilege
C6_Witness ==
    \E r, q \in Requests :
        /\ Handled(r) /\ req[r].canCreateJob /\ req[r].licensed
        /\ ~Handled(q) /\ req[q].pc = "done" /\ ~req[q].canCreateJob
        /\ req[q].outcomes = <<Forbidden>>

\* C7: pass-through on success.  On every route, when the model function
\* resolves with v the handler's only outcome is response.ok with body v; and
\* calculate_model_memory_limit calls calculateModelMemoryLimitProvider(client,
\* mlClient) with (analysisConfig, indexPattern, query, timeFieldName,
\* earliestMs, latestMs, undefined, datafeedConfig) of the request body.
C7_PassThrough ==
    \A r \in Requests :
        /\ (Finished(r) /\ req[r].settlement.kind = "resolved")
           => req[r].outcomes = <<[type |-> "ok", payload |-> req[r].settlement.value]>>
        /\ (Handled(r) /\ req[r].path = CalculateModelMemoryLimit)
           => req[r].calls =
                << [ fn   |-> "calculateModelMemoryLimitProvider",
                     make |-> <<Field("client", r), Field("mlClient", r)>>,
                     args |-> << Field("analysisConfig", r), Field("indexPattern", r),
                                 Field("query", r), Field("timeFieldName", r),
                                 Field("earliestMs", r), Field("latestMs", r),
                                 Undefined, Field("datafeedConfig", r) >> ] >>

\* a calculate_model_memory_limit request has been answered with the value
\* its model function resolved with
C7_Witness ==
    \E r \in Requests :
        /\ Finished(r) /\ req[r].path = CalculateModelMemoryLimit
        /\ req[r].settlement = [kind |-> "resolved", value |-> Field("result", r)]
        /\ req[r].outcomes = <<ResponseOk(Field("result", r))>>

\* C9: single round trip.  A request that reaches its handler causes exactly
\* one call of the route's model function, never a second one; while the
\* call is outstanding there is no response; and the handler ends with
\* exactly one outcome, which is response.ok, response.customError or a
\* thrown Boom error.
C9_SingleRoundTrip ==
    \A r \in Requests :
        /\ Len(req[r].calls) <= 1
        /\ Len(req[r].outcomes) <= 1
        /\ req[r].pc \in {"awaiting", "settled"}
           => (Len(req[r].calls) = 1 /\ req[r].outcomes = <<>>)
        /\ req[r].pc = "settled" => req[r].settlement.kind # "pending"
        /\ Finished(r)
           => /\ Len(req[r].calls) = 1
              /\ Len(req[r].outcomes) = 1
              /\ req[r].outcomes[1].type \in {"ok", "customError", "Boom.badRequest"}
              /\ req[r].settlement.kind # "pending"

\* one request failed and one succeeded, each with one call and one outcome
C9_Witness ==
    \E r, q \in Requests :
        /\ Finished(r) /\ req[r].path = ValidateCardinality /\ PromiseRejected(r)
        /\ Len(req[r].calls) = 1 /\ Len(req[r].outcomes) = 1
        /\ Finished(q) /\ req[q].path = EstimateBucketSpan
        /\ req[q].settlement.kind = "resolved"
        /\ Len(req[q].calls) = 1 /\ Len(req[q].outcomes) = 1

\* a body of the shape the .catch callback of estimate_bucket_span builds
IsErrorResp(body) ==
    \E q \in Requests : \E s \in Settlements(q) : body = [error |-> TRUE, message |-> s.value]

\* C10: isolation of estimate_bucket_span requests.  Whatever the order in
\* which the estimator promises of concurrent requests settle, a request is
\* answered with an error sentinel only if its own promise rejected, and then
\* with the sentinel of its own rejection; the sentinel of one request never
\* is the body of another.
C10_RequestIsolation ==
    \A r \in Requests :
        (Finished(r) /\ req[r].path = EstimateBucketSpan /\ req[r].outcomes # <<>>
            /\ req[r].outcomes[1].type = "ok")
        => LET body == req[r].outcomes[1].payload
           IN  /\ IsErrorResp(body) <=> PromiseRejected(r)
               /\ \A q \in Requests \ {r} :
                     PromiseRejected(q) =>
                        body # [error |-> TRUE, message |-> req[q].settlement.value]

\* one estimate_bucket_span request has rejected and left its sentinel in its
\* errorResp, while another, whose promise resolved, is about to build its
\* response
C10_Witness ==
    \E r, q \in Requests :
        /\ r # q
        /\ Finished(r) /\ req[r].path = EstimateBucketSpan /\ PromiseRejected(r)
        /\ errorResp[r] = ErrorResp(req[r].settlement.value)
        /\ req[q].path = EstimateBucketSpan /\ req[q].pc = "settled"
        /\ req[q].settlement.kind = "resolved"
        /\ errorResp[q] = Undefined

(***************************************************************************)
(* Property of the detection rule (specification EqlSpec).                 *)
(***************************************************************************)
\* C4: the rule identifies use of netsh.exe.  The query matches an event only
\* if it is a process event whose event.type is "start" or "process_started"
\* and whose process.name is netsh.exe, and whose process.args carry
\* disable/firewall/set or advfirewall/off/state.
C4_MatchesOnlyNetsh ==
    matched = "match"
    => /\ event.category = "process"
       /\ event.type \in {"start", "process_started"}
       /\ event.name \in {"netsh.exe", "NETSH.EXE"}
       /\ \/ {"disable", "firewall", "set"} \subseteq event.args
          \/ {"advfirewall", "off", "state"} \subseteq event.args

====
